---------------------------- MODULE Spec2Model ----------------------------
(***************************************************************************)
(* A model of repopath-sanitizer: the rename planner (engine.plan_renames, *)
(* pathrules.disambiguate_targets), the apply / undo replay loops of the   *)
(* main window (ui_main._run_apply, _apply_fixes, _undo_last_run), the     *)
(* apply loop of worker.ApplyWorker and the cooperative cancellation of    *)
(* worker.ScanWorker, over a working tree that gitutils.git_mv changes as  *)
(* git mv does; the validation and fix functions of pathrules, the         *)
(* collision detector of engine and the edits of the result table.         *)
(*                                                                         *)
(* A path is a sequence of one-character strings, so that the string       *)
(* operations of the code (split, casefold, rpartition, startswith, +) are *)
(* computed character by character.                                       *)
(***************************************************************************)
EXTENDS Integers, Sequences, FiniteSets, TLC

VARIABLES
    \* ---- the pure-function harness (SpecPlan, SpecRules) ----
    phase,        \* "input" | "planned" | "disambiguated" | "returned"; "gui" in Spec
    targets,      \* argument of disambiguate_targets
    disamb,       \* its result: a map target -> adjusted target
    plan,         \* result of plan_renames: [ops, warnings]
    arg,          \* arguments of a pathrules / engine function: [rel_path, config, paths]
    result,       \* the function called and the value it returned: [fn, value]
    \* ---- the repository ----
    repo,         \* the working tree: [files, dirs, links]
    last_run,     \* the mapping state.save_last_run stored, <<>> when none
    \* ---- the main window ----
    win_config,   \* MainWindow.config
    items,        \* MainWindow.items: sequence of ScanItem records
    pc,           \* the handler the GUI thread is in, and where in it
    do_stash,     \* _apply_fixes: do_stash
    stashed,      \* _apply_fixes: stashed
    \* ---- the replay loop of _run_apply / ApplyWorker.run ----
    is_dry,       \* the dry_run argument
    planned_ops,  \* planned_ops
    applied_ops,  \* applied_ops (applied in ApplyWorker.run)
    run_warnings, \* warnings
    idx,          \* position of the loop (also of the undo loop)
    \* ---- the replay loop of _undo_last_run ----
    reversed_ops, \* reversed_ops
    failures,     \* failures
    \* ---- observation ----
    movelog,      \* the calls of git_mv of the running loop, with outcomes
    faults,       \* failures of git for reasons outside the tree, so far
    clicks,       \* edits of the table (check boxes, combo box), so far
    runs,         \* replays started (apply, worker, undo), so far
    ghost,        \* history: trees at the start of a run and of an undo; in
                  \* _apply_fixes the answer to "Confirm apply" and whether
                  \* stash_pop was called
    \* ---- the scan worker (SpecScan) ----
    workers,      \* the ScanWorker objects constructed, in order
    scan_worker,  \* MainWindow._scan_worker: index in workers, 0 for None
    inbox,        \* terminal signals queued for the GUI thread
    btn_cancel,   \* btn_cancel is enabled
    btn_scan      \* btn_scan is enabled

vars == <<phase, targets, disamb, plan, arg, result, repo, last_run, win_config, items, pc,
          do_stash, stashed, is_dry, planned_ops, applied_ops, run_warnings, idx,
          reversed_ops, failures, movelog, faults, clicks, runs, ghost,
          workers, scan_worker, inbox, btn_cancel, btn_scan>>

scanvars == <<workers, scan_worker, inbox, btn_cancel, btn_scan>>

\* ui_main.py lines 106-107 and 135-160: no scan was started
ScanUnused ==
    /\ workers = <<>>
    /\ scan_worker = 0
    /\ inbox = <<>>
    /\ btn_cancel = FALSE
    /\ btn_scan = TRUE

-----------------------------------------------------------------------------
(* Bounds of the model.                                                    *)

\* longest item list handed to plan_renames in SpecPlan
MaxItems == 3
\* longest target list handed to disambiguate_targets in SpecPlan
MaxTargets == 3
\* most tracked files of a repository in Spec
MaxFiles == 3
\* most failures of git for reasons outside the tree in one behaviour of Spec
MaxFaults == 1
\* most edits of the table (check boxes, combo box) in one behaviour of Spec
MaxClicks == 2
\* most replays (apply, worker, undo) started in one behaviour of Spec
MaxRuns == 2
\* most scans started in one behaviour of SpecScan
MaxScans == 2
\* longest path of the exhaustive part of the inputs of SpecRules
MaxPathLen == 3
\* longest path list handed to detect_collisions_case_insensitive in SpecRules
MaxPaths == 3

\* constants.py (not in src/): the default of ScanConfig.max_path, which the
\* CLI repeats (cli.py line 17)
DEFAULT_WIN_MAX_PATH == 260

-----------------------------------------------------------------------------
(* Strings.                                                                *)

\* A character is a one-character string; the three characters outside
\* printable ASCII that the model uses, and the grave accent, are written
\* by their code point.
Tab == "U+0009"
EAcute == "U+00E9"
CombiningAcute == "U+0301"

\* The printable ASCII characters in code point order, from 32 to 126.
Ascii == <<" ", "!", "\"", "#", "$", "%", "&", "'", "(", ")", "*", "+", ",", "-",
           ".", "/", "0", "1", "2", "3", "4", "5", "6", "7", "8", "9", ":", ";",
           "<", "=", ">", "?", "@", "A", "B", "C", "D", "E", "F", "G", "H", "I",
           "J", "K", "L", "M", "N", "O", "P", "Q", "R", "S", "T", "U", "V", "W",
           "X", "Y", "Z", "[", "\\", "]", "^", "_", "U+0060", "a", "b", "c", "d", "e",
           "f", "g", "h", "i", "j", "k", "l", "m", "n", "o", "p", "q", "r", "s",
           "t", "u", "v", "w", "x", "y", "z", "{", "|", "}", "~">>

\* ord(c)
CodePoint(c) ==
    CASE c = Tab            -> 9
      [] c = EAcute         -> 233
      [] c = CombiningAcute -> 769
      [] OTHER              -> 31 + (CHOOSE i \in 1..Len(Ascii) : Ascii[i] = c)

IsUpper(c) == CodePoint(c) >= 65 /\ CodePoint(c) <= 90
IsLower(c) == CodePoint(c) >= 97 /\ CodePoint(c) <= 122

\* str.casefold() of one character
FoldChar(c) == IF IsUpper(c) THEN Ascii[CodePoint(c) + 32 - 31] ELSE c

\* str.upper() of one character
UpperChar(c) == IF IsLower(c) THEN Ascii[CodePoint(c) - 32 - 31] ELSE c

\* str.casefold()
casefold(s) == [i \in 1..Len(s) |-> FoldChar(s[i])]

\* s.count("/")
CountSlash(s) == Cardinality({i \in 1..Len(s) : s[i] = "/"})

\* s.startswith(p)
StartsWith(s, p) == Len(s) >= Len(p) /\ SubSeq(s, 1, Len(p)) = p

\* str(n) for a natural number n
RECURSIVE DecStr(_)
DecStr(n) ==
    IF n < 10 THEN <<Ascii[17 + n]>>
    ELSE DecStr(n \div 10) \o <<Ascii[17 + (n % 10)]>>

\* the index of the last "." of s, 0 when there is none (str.rpartition)
LastDot(s) ==
    IF \E i \in 1..Len(s) : s[i] = "."
    THEN CHOOSE i \in 1..Len(s) : s[i] = "." /\ \A j \in (i+1)..Len(s) : s[j] # "."
    ELSE 0

\* s.split(".")
RECURSIVE SplitDot(_)
SplitDot(s) ==
    IF \E i \in 1..Len(s) : s[i] = "."
    THEN LET i == CHOOSE k \in 1..Len(s) : s[k] = "." /\ \A j \in 1..(k-1) : s[j] # "."
         IN  <<SubSeq(s, 1, i - 1)>> \o SplitDot(SubSeq(s, i + 1, Len(s)))
    ELSE <<s>>

DotGit == <<".", "g", "i", "t">>
DotGitSlash == <<".", "g", "i", "t", "/">>

-----------------------------------------------------------------------------
(* Python dict as a function.                                              *)

EmptyDict == [k \in {} |-> <<>>]

\* d[k] = v
DictSet(d, k, v) == [x \in (DOMAIN d) \cup {k} |-> IF x = k THEN v ELSE d[x]]

\* d.get(k, default)
DictGet(d, k, default) == IF k \in DOMAIN d THEN d[k] ELSE default

-----------------------------------------------------------------------------
(* pathrules.disambiguate_targets                                          *)

\* lines 185-190: the adjusted target for the n-th repetition of a key
SuffixedTarget(t, n) ==
    LET i == LastDot(t) IN
    IF i > 0
    THEN SubSeq(t, 1, i - 1) \o <<"_">> \o DecStr(n) \o <<".">> \o SubSeq(t, i + 1, Len(t))
    ELSE t \o <<"_">> \o DecStr(n)

\* the loop of lines 177-191 from position i on, with the dicts out and seen_ci
RECURSIVE DisambiguateLoop(_, _, _, _)
DisambiguateLoop(ts, i, out, seen_ci) ==
    IF i > Len(ts) THEN out
    ELSE LET t   == ts[i]
             key == casefold(t)
         IN  IF key \notin DOMAIN seen_ci
             THEN DisambiguateLoop(ts, i + 1, DictSet(out, t, t), DictSet(seen_ci, key, 0))
             ELSE LET n == seen_ci[key] + 1
                  IN  DisambiguateLoop(ts, i + 1, DictSet(out, t, SuffixedTarget(t, n)),
                                       DictSet(seen_ci, key, n))

disambiguate_targets(ts) == DisambiguateLoop(ts, 1, EmptyDict, EmptyDict)

-----------------------------------------------------------------------------
(* engine.plan_renames                                                     *)

\* warnings are records of one shape: the kind of the message and the two
\* paths it names
Warning(kind, a, b) == [kind |-> kind, src |-> a, dst |-> b]

\* a mutant: the check box of the row is not read
IsPlannedUnselected(it) ==
    it.proposed_fix # <<>> /\ it.proposed_fix # it.rel_path

\* line 144: the filter (a None or empty proposed_fix is falsy)
IsPlanned(it) ==
    it.selected /\ it.proposed_fix # <<>> /\ it.proposed_fix # it.rel_path

\* the deepest rel_path of a list
MaxDepthOf(its) ==
    IF its = <<>> THEN 0
    ELSE CHOOSE d \in {CountSlash(its[i].rel_path) : i \in 1..Len(its)} :
             \A i \in 1..Len(its) : CountSlash(its[i].rel_path) <= d

\* the items of depth d, d-1, ..., 0 in that order, each depth in list order
RECURSIVE DepthBuckets(_, _)
DepthBuckets(its, d) ==
    IF d < 0 THEN <<>>
    ELSE SelectSeq(its, LAMBDA it : CountSlash(it.rel_path) = d) \o DepthBuckets(its, d - 1)

\* a mutant: shallowest first (reverse=True forgotten)
RECURSIVE DepthBucketsUp(_, _)
DepthBucketsUp(its, d) ==
    IF d < 0 THEN <<>>
    ELSE DepthBucketsUp(its, d - 1) \o SelectSeq(its, LAMBDA it : CountSlash(it.rel_path) = d)

SortShallowestFirst(its) == DepthBucketsUp(its, MaxDepthOf(its))

\* line 146: list.sort(key=depth, reverse=True), a stable sort
SortDeepestFirst(its) == DepthBuckets(its, MaxDepthOf(its))

\* a mutant: only the source is checked
IsGitSourceOnly(rel_path, dst) ==
    StartsWith(rel_path, DotGitSlash) \/ rel_path = DotGit

\* line 161: the .git guard
IsGitInternal(rel_path, dst) ==
    \/ StartsWith(rel_path, DotGitSlash)
    \/ StartsWith(dst, DotGitSlash)
    \/ rel_path = DotGit
    \/ dst = DotGit

\* the loop of lines 156-170 from position i on
RECURSIVE PlanLoop(_, _, _, _, _, _)
PlanLoop(selected, dis, i, ops, warnings, used_ci) ==
    IF i > Len(selected) THEN [ops |-> ops, warnings |-> warnings]
    ELSE LET it  == selected[i]
             dst == DictGet(dis, it.proposed_fix, it.proposed_fix)
             w1  == IF dst # it.proposed_fix
                    THEN Append(warnings, Warning("collision", it.proposed_fix, dst))
                    ELSE warnings
         IN  IF IsGitInternal(it.rel_path, dst)
             THEN PlanLoop(selected, dis, i + 1, ops,
                           Append(w1, Warning("refuse_git", it.rel_path, dst)), used_ci)
             ELSE LET k    == casefold(dst)
                      dst2 == IF k \in used_ci THEN dst \o <<"_", "x">> ELSE dst
                      w2   == IF k \in used_ci
                              THEN Append(w1, Warning("guard", it.rel_path, dst2))
                              ELSE w1
                  IN  PlanLoop(selected, dis, i + 1,
                               Append(ops, [src |-> it.rel_path, dst |-> dst2]),
                               w2, used_ci \cup {k})

\* lines 142-171
plan_renames(its) ==
    LET selected == SortDeepestFirst(SelectSeq(its, IsPlanned))
        tgts     == [i \in 1..Len(selected) |-> selected[i].proposed_fix]
    IN  PlanLoop(selected, disambiguate_targets(tgts), 1, <<>>, <<>>, {})

-----------------------------------------------------------------------------
(* pathrules: validation and fix synthesis                                 *)

Min(a, b) == IF a <= b THEN a ELSE b
Max(a, b) == IF a >= b THEN a ELSE b

\* the concatenation of a sequence of strings
RECURSIVE Concat(_)
Concat(ss) == IF ss = <<>> THEN <<>> ELSE Head(ss) \o Concat(Tail(ss))

\* s.split("/")
RECURSIVE SplitSlash(_)
SplitSlash(s) ==
    IF \E i \in 1..Len(s) : s[i] = "/"
    THEN LET i == CHOOSE k \in 1..Len(s) : s[k] = "/" /\ \A j \in 1..(k-1) : s[j] # "/"
         IN  <<SubSeq(s, 1, i - 1)>> \o SplitSlash(SubSeq(s, i + 1, Len(s)))
    ELSE <<s>>

\* "/".join(segs)
RECURSIVE JoinSlash(_)
JoinSlash(segs) ==
    IF segs = <<>> THEN <<>>
    ELSE IF Len(segs) = 1 THEN segs[1]
    ELSE segs[1] \o <<"/">> \o JoinSlash(Tail(segs))

\* line 11
FORBIDDEN_CHARS == {"<", ">", ":", "\"", "/", "\\", "|", "?", "*"}

\* line 13: CONTROL_RE matches code points 0-31
IsControl(c) == CodePoint(c) <= 31

\* lines 15-19
RESERVED_DEVICE_NAMES ==
    { <<"C", "O", "N">>, <<"P", "R", "N">>, <<"A", "U", "X">>, <<"N", "U", "L">> }
    \cup { <<"C", "O", "M">> \o DecStr(i) : i \in 1..9 }
    \cup { <<"L", "P", "T">> \o DecStr(i) : i \in 1..9 }

\* lines 23-33, in dict order
SUBSTITUTIONS ==
    << <<":", <<" ", "-">> >>, <<"|", <<"-">> >>, <<"\\", <<"-">> >>, <<"/", <<"-">> >>,
       <<"<", <<>> >>, <<">", <<>> >>, <<"\"", <<>> >>, <<"?", <<>> >>, <<"*", <<>> >> >>

\* lines 35-38
is_reserved_device(seg) ==
    LET base == Head(SplitDot(seg)) IN
    [i \in 1..Len(base) |-> UpperChar(base[i])] \in RESERVED_DEVICE_NAMES

\* a mutant: a trailing space is not looked for
has_trailing_period(seg) ==
    seg # <<>> /\ seg[Len(seg)] = "."

\* lines 40-41
has_trailing_space_or_period(seg) ==
    seg # <<>> /\ seg[Len(seg)] \in {" ", "."}

\* a mutant: the control characters are not looked for
contains_forbidden_char(seg) ==
    \E i \in 1..Len(seg) : seg[i] \in FORBIDDEN_CHARS

\* lines 43-44
contains_forbidden(seg) ==
    \E i \in 1..Len(seg) : seg[i] \in FORBIDDEN_CHARS \/ IsControl(seg[i])

\* lines 46-47: unicodedata.normalize("NFC", s), on the one composable pair
\* of the model's characters
RECURSIVE normalize_nfc(_)
normalize_nfc(s) ==
    IF Len(s) < 2 THEN s
    ELSE IF s[1] = "e" /\ s[2] = CombiningAcute
         THEN <<EAcute>> \o normalize_nfc(SubSeq(s, 3, Len(s)))
         ELSE <<s[1]>> \o normalize_nfc(Tail(s))

\* lines 53-54
nfc_path(rel_path) == normalize_nfc(rel_path)

\* lines 49-51
windows_casefold_path(rel_path) == casefold(rel_path)

\* lines 56-60
ScanConfig(max_path, normalize_unicode_nfc, collapse_spaces) ==
    [max_path |-> max_path, normalize_unicode_nfc |-> normalize_unicode_nfc,
     collapse_spaces |-> collapse_spaces]

\* lines 70-78: the issue codes of one segment
SegmentIssues(seg) ==
    IF seg \in {<<>>, <<".">>, <<".", ".">>} THEN <<>>
    ELSE (IF contains_forbidden(seg) THEN <<"FORBIDDEN_CHARS">> ELSE <<>>)
      \o (IF has_trailing_space_or_period(seg) THEN <<"TRAILING_SPACE_PERIOD">> ELSE <<>>)
      \o (IF is_reserved_device(seg) THEN <<"RESERVED_DEVICE">> ELSE <<>>)

\* lines 68-79
validate_segments(segments) ==
    Concat([i \in 1..Len(segments) |-> SegmentIssues(segments[i])])

\* lines 81-89
validate_rel_path(rel_path, config) ==
    validate_segments(SplitSlash(rel_path))
      \o (IF Len(rel_path) >= config.max_path THEN <<"PATH_TOO_LONG">> ELSE <<>>)

\* out.replace(ch, repl)
ReplaceChar(s, ch, repl) ==
    Concat([i \in 1..Len(s) |-> IF s[i] = ch THEN repl ELSE <<s[i]>>])

\* lines 96-101: the substitutions from table entry i on
RECURSIVE ApplySubstitutions(_, _)
ApplySubstitutions(out, i) ==
    IF i > Len(SUBSTITUTIONS) THEN out
    ELSE ApplySubstitutions(ReplaceChar(out, SUBSTITUTIONS[i][1], SUBSTITUTIONS[i][2]), i + 1)

\* a mutant: the control characters stay
KeepControl(s) == s

\* lines 103-107: CONTROL_RE.sub("", out)
RemoveControl(s) == SelectSeq(s, LAMBDA c : ~IsControl(c))

\* line 111: out.rstrip(" .")
RECURSIVE RStripSpacePeriod(_)
RStripSpacePeriod(s) ==
    IF has_trailing_space_or_period(s) THEN RStripSpacePeriod(SubSeq(s, 1, Len(s) - 1))
    ELSE s

\* MULTISPACE_RE.sub(" ", s): a space that follows a space is dropped
CollapseSpaces(s) ==
    LET keep == {i \in 1..Len(s) : ~(s[i] = " " /\ i > 1 /\ s[i - 1] = " ")}
        F[i \in 0..Len(s)] ==
            IF i = 0 THEN <<>>
            ELSE IF i \in keep THEN Append(F[i - 1], s[i]) ELSE F[i - 1]
    IN  F[Len(s)]

\* MULTISPACE_RE.search(s)
HasMultiSpace(s) == \E i \in 1..(Len(s) - 1) : s[i] = " " /\ s[i + 1] = " "

\* lines 91-136: SegmentFix.fixed
fix_segment(seg, config) ==
    LET s1 == ApplySubstitutions(seg, 1)
        s2 == RemoveControl(s1)
        s3 == RStripSpacePeriod(s2)
        s4 == IF is_reserved_device(s3) THEN s3 \o <<"_">> ELSE s3
        s5 == IF config.collapse_spaces THEN CollapseSpaces(s4) ELSE s4
        s6 == IF config.normalize_unicode_nfc THEN normalize_nfc(s5) ELSE s5
    IN  s6

\* models.FixOption (label and warnings are display text)
FixOption(key, preview_path) == [key |-> key, preview_path |-> preview_path]

\* lines 138-171
generate_fix_options(rel_path, config) ==
    LET segments       == SplitSlash(rel_path)
        fixed_segments == [i \in 1..Len(segments) |-> fix_segment(segments[i], config)]
        any_changes    == \E i \in 1..Len(segments) : fixed_segments[i] # segments[i]
        fixed_path     == JoinSlash(fixed_segments)
        nfc            == normalize_nfc(rel_path)
        collapsed      == CollapseSpaces(rel_path)
    IN  (IF any_changes /\ fixed_path # rel_path
         THEN <<FixOption("auto", fixed_path)>>
         ELSE <<FixOption("none", rel_path)>>)
     \o (IF nfc # rel_path THEN <<FixOption("nfc", nfc)>> ELSE <<>>)
     \o (IF HasMultiSpace(rel_path) /\ collapsed # rel_path
         THEN <<FixOption("spaces", collapsed)>> ELSE <<>>)

\* s[:k] of Python, k possibly negative
SliceTo(s, k) ==
    IF k >= 0 THEN SubSeq(s, 1, Min(k, Len(s))) ELSE SubSeq(s, 1, Max(0, Len(s) + k))

\* the hexadecimal digits
HexDigits == <<"0", "1", "2", "3", "4", "5", "6", "7", "8", "9", "a", "b", "c", "d", "e", "f">>

\* a stand-in for sha1: a number below 16^6 computed from the characters
RECURSIVE Digest(_, _)
Digest(s, acc) ==
    IF s = <<>> THEN acc
    ELSE Digest(Tail(s), (acc * 31 + CodePoint(Head(s))) % 16777216)

\* lines 200-202: h(s), six hexadecimal digits of a digest of s
Hash6(s) ==
    LET v == Digest(s, 7) IN
    [i \in 1..6 |-> HexDigits[1 + ((v \div (16 ^ (6 - i))) % 16)]]

\* lines 203-207: the loop over the segments from index i on
RECURSIVE ShortenLoop(_, _, _)
ShortenLoop(segs, i, max_len) ==
    IF i > Len(segs) \/ Len(JoinSlash(segs)) <= max_len THEN segs
    ELSE IF Len(segs[i]) > 12
         THEN ShortenLoop([segs EXCEPT ![i] = SubSeq(segs[i], 1, 8) \o <<"-">> \o Hash6(segs[i])],
                          i + 1, max_len)
         ELSE ShortenLoop(segs, i + 1, max_len)

\* lines 194-212
shorten_path(rel_path, max_len) ==
    IF Len(rel_path) <= max_len THEN rel_path
    ELSE LET shortened == JoinSlash(ShortenLoop(SplitSlash(rel_path), 1, max_len))
         IN  IF Len(shortened) > max_len
             THEN SliceTo(shortened, max_len - 7) \o <<"-">> \o Hash6(rel_path)
             ELSE shortened

-----------------------------------------------------------------------------
(* engine.build_scan                                                       *)

\* a < b for two strings, as Python compares them
RECURSIVE StrLess(_, _)
StrLess(a, b) ==
    IF a = <<>> THEN b # <<>>
    ELSE IF b = <<>> THEN FALSE
    ELSE IF a[1] = b[1] THEN StrLess(Tail(a), Tail(b))
    ELSE CodePoint(a[1]) < CodePoint(b[1])

\* sorted(S) for a set of strings
RECURSIVE SortedStrings(_)
SortedStrings(S) ==
    IF S = {} THEN <<>>
    ELSE LET m == CHOOSE x \in S : \A y \in S \ {x} : StrLess(x, y)
         IN  <<m>> \o SortedStrings(S \ {m})

\* lines 30-36
dirs_from_files(files) ==
    UNION { { JoinSlash(SubSeq(SplitSlash(files[k]), 1, i)) :
                  i \in 1..(Len(SplitSlash(files[k])) - 1) } : k \in 1..Len(files) }

\* the paths of a list, in list order, whose key is k
Group(paths, Key(_), k) == SelectSeq(paths, LAMBDA p : Key(p) = k)

\* lines 38-43: a dict from case-fold key to the list of paths with that key
detect_collisions_case_insensitive(paths) ==
    LET keys == {windows_casefold_path(paths[i]) : i \in 1..Len(paths)}
        coll == {k \in keys : Len(Group(paths, windows_casefold_path, k)) > 1}
    IN  [k \in coll |-> Group(paths, windows_casefold_path, k)]

\* list(dict.fromkeys(v)): the first occurrences, in order
Uniq(v) == SelectSeq([i \in 1..Len(v) |-> <<i, v[i]>>],
                     LAMBDA e : \A j \in 1..(e[1] - 1) : v[j] # e[2])

\* lines 45-56
detect_collisions_nfc(paths) ==
    LET keys == {nfc_path(paths[i]) : i \in 1..Len(paths)}
        uniq(k) == [i \in 1..Len(Uniq(Group(paths, nfc_path, k))) |->
                        Uniq(Group(paths, nfc_path, k))[i][2]]
        coll == {k \in keys : Len(uniq(k)) > 1}
    IN  [k \in coll |-> uniq(k)]

\* line 70: the sort key (s.count("/"), s)
ScanOrderLess(a, b) ==
    \/ CountSlash(a) < CountSlash(b)
    \/ CountSlash(a) = CountSlash(b) /\ StrLess(a, b)

\* models.ScanItem (abs_path and the free-text warnings are not modelled)
ScanItem(item_type, rel_path, issues, proposed_fix, fix_options, chosen_fix_key) ==
    [item_type |-> item_type, rel_path |-> rel_path, issues |-> issues,
     proposed_fix |-> proposed_fix, fix_options |-> fix_options,
     chosen_fix_key |-> chosen_fix_key, status |-> "Pending", selected |-> TRUE]

\* lines 74-122: the item of one path, <<>> when it has no issue
ScanOne(rel, tree, config, case_coll, nfc_coll) ==
    LET is_dir  == rel \in tree.dirs
        is_link == rel \in tree.links
        item_type == IF is_link THEN "Symlink" ELSE IF is_dir THEN "Folder" ELSE "File"
        issues == validate_rel_path(rel, config)
                  \o (IF windows_casefold_path(rel) \in DOMAIN case_coll
                      THEN <<"CASE_COLLISION">> ELSE <<>>)
                  \o (IF nfc_path(rel) \in DOMAIN nfc_coll
                      THEN <<"UNICODE_NFC_COLLISION">> ELSE <<>>)
                  \o (IF is_link THEN <<"SYMLINK">> ELSE <<>>)
        opts0 == generate_fix_options(rel, config)
        proposed0 == IF opts0 # <<>> THEN opts0[1].preview_path ELSE rel
        long == Len(rel) > config.max_path
        short == shorten_path(rel, config.max_path)
        fix_options == IF long THEN Append(opts0, FixOption("shorten", short)) ELSE opts0
        proposed == IF long /\ proposed0 = rel THEN short ELSE proposed0
    IN  IF issues = <<>> THEN <<>>
        ELSE <<ScanItem(item_type, rel, issues, proposed, fix_options,
                        IF fix_options # <<>> THEN fix_options[1].key ELSE "None")>>

\* lines 58-122: the item list (the metadata is not modelled); files is the
\* list of tracked files, tree the working tree
build_scan(files, tree, config) ==
    LET dirs      == SortedStrings(dirs_from_files(files))
        all_paths == files \o dirs
        case_coll == detect_collisions_case_insensitive(all_paths)
        nfc_coll  == detect_collisions_nfc(all_paths)
        visit     == SelectSeq(SortSeq(all_paths, ScanOrderLess),
                               LAMBDA rel : ~(rel = DotGit \/ StartsWith(rel, DotGitSlash)))
    IN  Concat([i \in 1..Len(visit) |-> ScanOne(visit[i], tree, config, case_coll, nfc_coll)])

-----------------------------------------------------------------------------
(* The working tree and gitutils.git_mv                                    *)

\* a working tree: tracked files, directories and symlinks (sets of paths)
Tree(files, dirs, links) == [files |-> files, dirs |-> dirs, links |-> links]

\* every path of the working tree
Paths(tree) == tree.files \cup tree.dirs

\* the directory a path lies in, <<>> for the repository root
Parent(p) ==
    LET segs == SplitSlash(p) IN JoinSlash(SubSeq(segs, 1, Len(segs) - 1))

\* the path p after src was renamed to dst
Renamed(p, src, dst) ==
    IF p = src THEN dst
    ELSE IF StartsWith(p, src \o <<"/">>)
         THEN dst \o SubSeq(p, Len(src) + 1, Len(p))
         ELSE p

\* the tree after src was renamed to dst; a directory moves with its contents
MoveTree(tree, src, dst) ==
    Tree({Renamed(p, src, dst) : p \in tree.files},
         {Renamed(p, src, dst) : p \in tree.dirs},
         {Renamed(p, src, dst) : p \in tree.links})

\* the last segment of a path
Basename(p) ==
    LET segs == SplitSlash(p) IN segs[Len(segs)]

\* git mv src dst with dst an existing directory moves src into it
MoveTarget(tree, src, dst) ==
    IF dst \in tree.dirs THEN dst \o <<"/">> \o Basename(src) ELSE dst

\* src is a tracked file or a directory with tracked files
Tracked(tree, src) ==
    \/ src \in tree.files
    \/ \E f \in tree.files : StartsWith(f, src \o <<"/">>)

\* the checks git mv makes before it renames, the only ones of git mv -n
GitMvChecks(tree, src, target) ==
    /\ Tracked(tree, src)
    /\ target \notin Paths(tree)
    /\ ~StartsWith(target, src \o <<"/">>)

\* gitutils.py lines 91-99: (ok, tree afterwards).  git fails when its checks
\* fail or the rename cannot be carried out, and may fail for a reason
\* outside the tree (fault); with dry_run (git mv -n) nothing is renamed
\* and the directory of the destination is not looked at.
git_mv(tree, src, dst, dry_run, fault) ==
    LET target == MoveTarget(tree, src, dst)
        ok == /\ GitMvChecks(tree, src, target)
              /\ dry_run \/ Parent(target) = <<>> \/ Parent(target) \in tree.dirs
              /\ ~fault
    IN  [ok |-> ok, tree |-> IF ok /\ ~dry_run THEN MoveTree(tree, src, target) ELSE tree]

\* one call of git_mv as the log records it
Call(src, dst, ok, fault) == [src |-> src, dst |-> dst, ok |-> ok, fault |-> fault]

-----------------------------------------------------------------------------
(* SpecPlan: the two pure functions applied to inputs drawn from bounded   *)
(* sets.                                                                   *)

\* a ScanItem with the fields plan_renames reads given, the others default
Item(rel_path, proposed_fix, selected) ==
    [ScanItem("File", rel_path, <<>>, proposed_fix, <<>>, "None") EXCEPT !.selected = selected]

\* items the planner is tried on: equal proposals, proposals equal up to
\* case, a proposal that equals another one's adjusted name, three depths,
\* a directory with entries inside it, .git sources and destinations, an
\* unchanged, an empty and an unselected one
ItemPool ==
    { Item(<<"a", "?">>, <<"x">>, TRUE),
      Item(<<"b", "*">>, <<"x">>, TRUE),
      Item(<<"c", "<">>, <<"x">>, TRUE),
      Item(<<"d", "/", "a", "?">>, <<"X">>, TRUE),
      Item(<<"d", "/", "b", "?">>, <<"x", "_", "1">>, TRUE),
      Item(<<"d", "/", "e", "/", "f", ".">>, <<"d", "/", "e", "/", "f">>, TRUE),
      Item(<<".", "g", "i", "t", "/", "a", "?">>, <<".", "g", "i", "t", "/", "a">>, TRUE),
      Item(<<".", "g", "i", "t">>, <<"g", "i", "t">>, TRUE),
      Item(<<"g", "?">>, <<".", "g", "i", "t">>, TRUE),
      Item(<<"k", ":">>, <<".", "g", "i", "t", "/", "k">>, TRUE),
      Item(<<"d">>, <<"e">>, TRUE),
      Item(<<"h">>, <<"h">>, TRUE),
      Item(<<"i", "?">>, <<>>, TRUE),
      Item(<<"j", "?">>, <<"x">>, FALSE) }

\* targets disambiguate_targets is tried on: with and without an extension,
\* equal up to case, and a dot in a directory segment only
TargetPool ==
    { <<"a", ".", "t">>, <<"A", ".", "t">>, <<"a", ".", "T">>,
      <<"b">>, <<"B">>,
      <<"d", ".", "e", "/", "c">>,
      <<"x", "_", "1">> }

\* the sequences over S of length at most n
SeqsUpTo(S, n) == UNION {[1..k -> S] : k \in 0..n}

\* the rel_paths of an item list are pairwise different, as the paths of one
\* repository are
DistinctPaths(its) ==
    \A i, j \in 1..Len(its) : i # j => its[i].rel_path # its[j].rel_path

NoPlan == [ops |-> <<>>, warnings |-> <<>>]

\* the arguments and the result of SpecRules, unused elsewhere
NoArg == [rel_path |-> <<>>, config |-> ScanConfig(DEFAULT_WIN_MAX_PATH, FALSE, FALSE),
          paths |-> <<>>]
NoResult == [fn |-> "none", value |-> <<>>]

\* the main window's variables, unused in SpecPlan
GuiUnused ==
    /\ repo = Tree({}, {}, {})
    /\ last_run = <<>>
    /\ win_config = ScanConfig(DEFAULT_WIN_MAX_PATH, FALSE, FALSE)
    /\ pc = "none"
    /\ do_stash = FALSE
    /\ stashed = FALSE
    /\ is_dry = FALSE
    /\ planned_ops = <<>>
    /\ applied_ops = <<>>
    /\ run_warnings = <<>>
    /\ idx = 1
    /\ reversed_ops = <<>>
    /\ failures = <<>>
    /\ movelog = <<>>
    /\ faults = 0
    /\ clicks = 0
    /\ runs = 0
    /\ ScanUnused
    /\ ghost = [loop |-> "none", run_before |-> <<>>, saved_before |-> <<>>,
                saved_after |-> <<>>, undo_from |-> <<>>, confirm |-> "none",
                pop |-> FALSE]

guivars == <<repo, last_run, win_config, pc, do_stash, stashed, is_dry, planned_ops,
             applied_ops, run_warnings, idx, reversed_ops, failures, movelog, faults,
             clicks, runs, ghost, scanvars>>

PlanInit ==
    /\ GuiUnused
    /\ phase = "input"
    /\ disamb = EmptyDict
    /\ plan = NoPlan
    /\ arg = NoArg
    /\ result = NoResult
    /\ \/ /\ items \in SeqsUpTo(ItemPool, MaxItems)
          /\ DistinctPaths(items)
          /\ targets = <<>>
       \/ items = <<>> /\ targets \in SeqsUpTo(TargetPool, MaxTargets) \ {<<>>}

\* a call plan_renames(items, config=...)
CallPlanRenames ==
    /\ phase = "input"
    /\ targets = <<>>
    /\ plan' = plan_renames(items)
    /\ phase' = "planned"
    /\ UNCHANGED <<targets, disamb, items, arg, result, guivars>>

\* a call disambiguate_targets(targets)
CallDisambiguate ==
    /\ phase = "input"
    /\ targets # <<>>
    /\ disamb' = disambiguate_targets(targets)
    /\ phase' = "disambiguated"
    /\ UNCHANGED <<targets, plan, items, arg, result, guivars>>

PlanNext == CallPlanRenames \/ CallDisambiguate

SpecPlan == PlanInit /\ [][PlanNext]_vars

-----------------------------------------------------------------------------
(* SpecRules: the functions of pathrules and the case collision detector   *)
(* of engine applied to inputs drawn from bounded sets.                    *)

\* the characters of the exhaustive inputs: a lower and an upper case
\* letter, a substituted and a removed forbidden character, the two
\* characters that are trimmed, the separator and a control character
RuleChars == {"a", "B", ":", "?", ".", " ", "/", Tab}

\* longer inputs: reserved device names with and without an extension and
\* in lower case, a decomposed character, runs of spaces, every forbidden
\* character, a path longer than the small limits without and with a
\* segment of more than 12 characters
RulePathPool ==
    { <<"C", "O", "N">>, <<"C", "O", "N", ".", "t", "x", "t">>,
      <<"c", "o", "m", "1">>, <<"a", "/", "N", "U", "L", ".">>,
      <<"L", "P", "T", "9", " ", ".", "a">>,
      <<"e", CombiningAcute, "?">>, <<"a", " ", " ", "b", "?">>,
      <<"a", "<", ">", "\"", "|", "\\", "*", "b">>,
      <<"a", "b", "c", "d", "e", "f", "g", "h">>,
      <<"d", "/", "a", "b", "c", "d", "e", "f", "g", "h", "i", "j", "k", "l", "m", "n", "?">>,
      <<"a", "b", "c", "d", "e", "f", "g", "h", "i", "j", "k", "l", "m", "n",
        "/", "a", "b", "c", "d", "e", "f", "g", "h", "i", "j", "k", "l", "m", "n">> }

\* limits of ScanConfig.max_path: the CLI (cli.py line 17) takes any integer
RuleMaxPaths == {5, 7, 12, 20, DEFAULT_WIN_MAX_PATH}

RuleConfigPool ==
    { ScanConfig(m, n, c) : m \in RuleMaxPaths, n \in BOOLEAN, c \in BOOLEAN }

\* path lists the collision detector is tried on: a path next to itself and
\* next to a path that differs by case only
CollisionPool == { <<"a">>, <<"A">>, <<"b">>, <<"a", "/", "c">> }

RulesInit ==
    /\ GuiUnused
    /\ phase = "input"
    /\ items = <<>>
    /\ targets = <<>>
    /\ disamb = EmptyDict
    /\ plan = NoPlan
    /\ result = NoResult
    /\ \/ \E p \in SeqsUpTo(RuleChars, MaxPathLen) \cup RulePathPool, c \in RuleConfigPool :
              arg = [rel_path |-> p, config |-> c, paths |-> <<>>]
       \/ \E ps \in SeqsUpTo(CollisionPool, MaxPaths) \ {<<>>} :
              arg = [NoArg EXCEPT !.paths = ps]

\* the function fn returned value
Returned(fn, value) ==
    /\ phase' = "returned"
    /\ result' = [fn |-> fn, value |-> value]
    /\ UNCHANGED <<targets, disamb, plan, items, arg, guivars>>

\* a call validate_rel_path(rel_path, config=config), as engine.py line 80
CallValidateRelPath ==
    /\ phase = "input"
    /\ arg.paths = <<>>
    /\ Returned("validate_rel_path", validate_rel_path(arg.rel_path, arg.config))

\* a call fix_segment(seg, config=config) on a segment of a split path, as
\* pathrules.py lines 140-146
CallFixSegment ==
    /\ phase = "input"
    /\ arg.paths = <<>>
    /\ \A i \in 1..Len(arg.rel_path) : arg.rel_path[i] # "/"
    /\ Returned("fix_segment", fix_segment(arg.rel_path, arg.config))

\* a call generate_fix_options(rel_path, config=config), as engine.py line 99
CallGenerateFixOptions ==
    /\ phase = "input"
    /\ arg.paths = <<>>
    /\ Returned("generate_fix_options", generate_fix_options(arg.rel_path, arg.config))

\* a call shorten_path(rel_path, config.max_path), as engine.py line 107
CallShortenPath ==
    /\ phase = "input"
    /\ arg.paths = <<>>
    /\ Returned("shorten_path", shorten_path(arg.rel_path, arg.config.max_path))

\* a call detect_collisions_case_insensitive(paths), as engine.py line 66
CallDetectCollisions ==
    /\ phase = "input"
    /\ arg.paths # <<>>
    /\ Returned("detect_collisions_case_insensitive",
                detect_collisions_case_insensitive(arg.paths))

RulesNext ==
    \/ CallValidateRelPath
    \/ CallFixSegment
    \/ CallGenerateFixOptions
    \/ CallShortenPath
    \/ CallDetectCollisions

SpecRules == RulesInit /\ [][RulesNext]_vars

-----------------------------------------------------------------------------
(* Spec: the main window over a repository.  A scan is taken as one step   *)
(* (the scan worker is the subject of SpecScan); the replay loops take one *)
(* step per call of git_mv.                                                *)

\* the tracked files a repository may start with: entries that sanitize to
\* names equal up to case, an entry whose sanitized name is taken by a file
\* or by a directory, a directory that needs a rename itself, and two
\* entries of one directory
FilePool ==
    { <<"a", "?">>, <<"A", "*">>, <<"a">>,
      <<"a", "/", "c">>, <<"d", ":", "/", "c">>,
      <<"e", "/", "f", ".">>, <<"e", "/", "g", "?">> }

\* no tracked file is a directory of another one
NoFileDirConflict(files) ==
    \A f, g \in files : ~StartsWith(g, f \o <<"/">>)

\* lines 56-60 of pathrules.py: the default configuration
ConfigPool == { ScanConfig(DEFAULT_WIN_MAX_PATH, FALSE, FALSE) }

NoGhost == [loop |-> "none", run_before |-> <<>>, saved_before |-> <<>>,
            saved_after |-> <<>>, undo_from |-> <<>>, confirm |-> "none",
            pop |-> FALSE]

\* the main window's variables outside a SpecPlan run
PlanUnused ==
    /\ phase = "gui"
    /\ targets = <<>>
    /\ disamb = EmptyDict
    /\ plan = NoPlan
    /\ arg = NoArg
    /\ result = NoResult

\* MainWindow.__init__ (ui_main.py lines 95-111) over a repository whose
\* tracked files are among pool, with a stored configuration among configs
InitOver(pool, configs) ==
    /\ PlanUnused
    /\ \E files \in SUBSET pool :
           /\ Cardinality(files) \in 1..MaxFiles
           /\ NoFileDirConflict(files)
           /\ repo = Tree(files, dirs_from_files(SortedStrings(files)), {})
    /\ win_config \in configs
    /\ items = <<>>
    /\ pc = "idle"
    /\ is_dry = FALSE
    /\ do_stash = FALSE
    /\ stashed = FALSE
    /\ planned_ops = <<>>
    /\ applied_ops = <<>>
    /\ run_warnings = <<>>
    /\ idx = 1
    /\ last_run = <<>>
    /\ reversed_ops = <<>>
    /\ failures = <<>>
    /\ movelog = <<>>
    /\ faults = 0
    /\ clicks = 0
    /\ runs = 0
    /\ ghost = NoGhost
    /\ ScanUnused

Init == InitOver(FilePool, ConfigPool)

loopvars == <<is_dry, planned_ops, applied_ops, run_warnings, idx, movelog>>
undovars == <<reversed_ops, failures>>
planvars == <<phase, targets, disamb, plan, arg, result>>
budget == <<clicks, runs>>

\* _start_scan, ScanWorker.run and _on_scan_finished (ui_main.py lines
\* 273-322) without a cancellation: the items of a scan of the tree
ScanFinished ==
    /\ pc = "idle"
    /\ items' = build_scan(SortedStrings(repo.files), repo, win_config)
    /\ UNCHANGED <<planvars, scanvars, repo, win_config, pc, do_stash, stashed, loopvars,
                   last_run, undovars, faults, budget, ghost>>

\* ui_main.py lines 363-367
OnRowChecked ==
    /\ pc = "idle"
    /\ clicks < MaxClicks
    /\ \E row \in 1..Len(items), checked \in BOOLEAN :
           items' = [items EXCEPT ![row].selected = checked]
    /\ clicks' = clicks + 1
    /\ UNCHANGED <<planvars, scanvars, repo, win_config, pc, do_stash, stashed, loopvars,
                   last_run, undovars, faults, runs, ghost>>

\* ui_main.py lines 369-378
ToggleAll ==
    /\ pc = "idle"
    /\ clicks < MaxClicks
    /\ \E checked \in BOOLEAN :
           items' = [r \in 1..Len(items) |-> [items[r] EXCEPT !.selected = checked]]
    /\ clicks' = clicks + 1
    /\ UNCHANGED <<planvars, scanvars, repo, win_config, pc, do_stash, stashed, loopvars,
                   last_run, undovars, faults, runs, ghost>>

\* a mutant: the proposal falls back to the path itself
PreviewIsPath(it, key) == it.rel_path

\* lines 439-442: the preview of the first option with the key, the old
\* proposal when there is none
PreviewOfKey(it, key) ==
    IF \E i \in 1..Len(it.fix_options) : it.fix_options[i].key = key
    THEN it.fix_options[CHOOSE i \in 1..Len(it.fix_options) :
                            /\ it.fix_options[i].key = key
                            /\ \A j \in 1..(i - 1) : it.fix_options[j].key # key].preview_path
    ELSE it.proposed_fix

\* ui_main.py lines 431-444: an entry of the combo box of the current row
OnFixChanged ==
    /\ pc = "idle"
    /\ clicks < MaxClicks
    /\ \E row \in 1..Len(items) :
         \E n \in 1..Len(items[row].fix_options) :
           LET key == items[row].fix_options[n].key
           IN  items' = [items EXCEPT ![row].chosen_fix_key = key,
                                      ![row].proposed_fix = PreviewOfKey(items[row], key)]
    /\ clicks' = clicks + 1
    /\ UNCHANGED <<planvars, scanvars, repo, win_config, pc, do_stash, stashed, loopvars,
                   last_run, undovars, faults, runs, ghost>>

\* ui_main.py lines 602-606: the Apply button is enabled
ApplyEnabled == items # <<>> /\ \E r \in 1..Len(items) : items[r].selected

\* the start of _run_apply and of ApplyWorker.run (ui_main.py lines 527-528,
\* worker.py lines 67-69)
StartLoop(dry) ==
    /\ is_dry' = dry
    /\ planned_ops' = plan_renames(items).ops
    /\ run_warnings' = plan_renames(items).warnings
    /\ applied_ops' = <<>>
    /\ idx' = 1
    /\ movelog' = <<>>

\* the locals of a replay after its handler returned
EndLoop ==
    /\ is_dry' = FALSE
    /\ planned_ops' = <<>>
    /\ run_warnings' = <<>>
    /\ applied_ops' = <<>>
    /\ idx' = 1
    /\ movelog' = <<>>
    /\ ghost' = [ghost EXCEPT !.loop = "none"]

\* a mutant: the loop never stops at a failure
StopNever(dry) == FALSE

\* a mutant: the loop stops at a failure in a preview too
StopAlways(dry) == TRUE

\* ui_main.py lines 533-534, worker.py lines 74-76: break after a failure
StopOnFailure(dry) == ~dry

\* one iteration of the loop of _run_apply (ui_main.py lines 529-537) and of
\* ApplyWorker.run (worker.py lines 70-80)
LoopStep ==
    /\ idx <= Len(planned_ops)
    /\ \E fault \in BOOLEAN :
         /\ fault => faults < MaxFaults
         /\ faults' = IF fault THEN faults + 1 ELSE faults
         /\ LET op == planned_ops[idx]
                r  == git_mv(repo, op.src, op.dst, is_dry, fault)
            IN  /\ repo' = r.tree
                /\ movelog' = Append(movelog, Call(op.src, op.dst, r.ok, fault))
                /\ IF ~r.ok
                   THEN /\ run_warnings' = Append(run_warnings,
                                                  Warning("git_mv_failed", op.src, op.dst))
                        /\ applied_ops' = applied_ops
                        /\ idx' = IF StopOnFailure(is_dry) THEN Len(planned_ops) + 1
                                  ELSE idx + 1
                   ELSE /\ run_warnings' = run_warnings
                        /\ applied_ops' = IF ~is_dry THEN Append(applied_ops, op)
                                          ELSE applied_ops
                        /\ idx' = idx + 1
    /\ UNCHANGED <<is_dry, planned_ops>>

\* ui_main.py lines 446-471: the click on Apply Fixes up to the preview pass
ApplyFixes ==
    /\ pc = "idle"
    /\ ApplyEnabled
    /\ runs < MaxRuns
    /\ \E uncommitted \in BOOLEAN, clicked \in {"abort", "continue", "stash"} :
         IF uncommitted /\ clicked = "abort"
         THEN UNCHANGED <<pc, do_stash, loopvars, ghost, runs>>
         ELSE /\ do_stash' = (uncommitted /\ clicked = "stash")
              /\ pc' = "preview"
              /\ StartLoop(TRUE)
              /\ runs' = runs + 1
              /\ ghost' = [ghost EXCEPT !.loop = "preview"]
    /\ UNCHANGED <<planvars, scanvars, repo, win_config, items, stashed, last_run, undovars,
                   faults, clicks>>

\* a call of git_mv in the preview pass of _apply_fixes
PreviewStep ==
    /\ pc = "preview"
    /\ LoopStep
    /\ UNCHANGED <<planvars, scanvars, win_config, items, pc, do_stash, stashed, last_run,
                   undovars, budget, ghost>>

\* a mutant: the answer to the confirmation is not read
ProceedsUnconfirmed(planned, confirm, stash_wanted, pushed) ==
    planned # <<>> /\ (stash_wanted => pushed)

\* ui_main.py lines 472-494: none of the three returns before the real pass
\* is taken
Proceeds(planned, confirm, stash_wanted, pushed) ==
    planned # <<>> /\ confirm = "Yes" /\ (stash_wanted => pushed)

\* ui_main.py lines 472-496: after the preview pass, the confirmation and
\* the stash, up to the start of the real pass
ConfirmApply ==
    /\ pc = "preview"
    /\ idx > Len(planned_ops)
    /\ \E confirm \in {"Yes", "No"}, pushed \in BOOLEAN :
         IF ~Proceeds(planned_ops, confirm, do_stash, pushed)
         THEN /\ pc' = "idle"
              /\ do_stash' = FALSE
              /\ EndLoop
              /\ UNCHANGED stashed
         ELSE /\ stashed' = (do_stash /\ pushed)
              /\ pc' = "apply"
              /\ StartLoop(FALSE)
              /\ ghost' = [ghost EXCEPT !.loop = "apply", !.run_before = repo,
                                        !.confirm = confirm]
              /\ UNCHANGED do_stash
    /\ UNCHANGED <<planvars, scanvars, repo, win_config, items, last_run, undovars, faults,
                   budget>>

\* a call of git_mv in the real pass of _apply_fixes
ApplyStep ==
    /\ pc = "apply"
    /\ LoopStep
    /\ UNCHANGED <<planvars, scanvars, win_config, items, pc, do_stash, stashed, last_run,
                   undovars, budget, ghost>>

\* ui_main.py lines 513-516: the statuses after an apply
MarkStatuses(its, applied) ==
    LET applied_set == {<<applied[i].src, applied[i].dst>> : i \in 1..Len(applied)}
    IN  [r \in 1..Len(its) |->
            IF <<its[r].rel_path, its[r].proposed_fix>> \in applied_set
            THEN [its[r] EXCEPT !.status = "Renamed"]
            ELSE its[r]]

\* ui_main.py lines 502-504: stash_pop is called
PopAttempted(made) == made

\* ui_main.py lines 498-511: after the real pass, up to the "Apply
\* completed" message box
ApplySaved ==
    /\ pc = "apply"
    /\ idx > Len(planned_ops)
    /\ last_run' = IF applied_ops # <<>> THEN applied_ops ELSE last_run
    /\ pc' = "report"
    /\ ghost' = IF applied_ops # <<>>
                THEN [ghost EXCEPT !.saved_before = ghost.run_before, !.saved_after = repo,
                                   !.pop = PopAttempted(stashed)]
                ELSE [ghost EXCEPT !.pop = PopAttempted(stashed)]
    /\ UNCHANGED <<planvars, scanvars, repo, win_config, items, do_stash, stashed, loopvars,
                   undovars, faults, budget>>

\* ui_main.py lines 512-517: the message box was closed; the statuses
ApplyDone ==
    /\ pc = "report"
    /\ UNCHANGED last_run
    /\ stashed' = FALSE
    /\ do_stash' = FALSE
    /\ items' = MarkStatuses(items, applied_ops)
    /\ pc' = "idle"
    /\ is_dry' = FALSE
    /\ planned_ops' = <<>>
    /\ run_warnings' = <<>>
    /\ applied_ops' = <<>>
    /\ idx' = 1
    /\ movelog' = <<>>
    /\ ghost' = [ghost EXCEPT !.loop = "none", !.confirm = "none", !.pop = FALSE]
    /\ UNCHANGED <<planvars, scanvars, repo, win_config, undovars, faults, budget>>

\* worker.py lines 64-69: ApplyWorker.run is entered
ApplyWorkerRun ==
    /\ pc = "idle"
    /\ runs < MaxRuns
    /\ \E dry \in BOOLEAN : StartLoop(dry)
    /\ pc' = "worker"
    /\ runs' = runs + 1
    /\ ghost' = [ghost EXCEPT !.loop = "worker"]
    /\ UNCHANGED <<planvars, scanvars, repo, win_config, items, do_stash, stashed, last_run,
                   undovars, faults, clicks>>

\* a call of git_mv in ApplyWorker.run
WorkerStep ==
    /\ pc = "worker"
    /\ LoopStep
    /\ UNCHANGED <<planvars, scanvars, win_config, items, pc, do_stash, stashed, last_run,
                   undovars, budget, ghost>>

\* worker.py lines 81-82: ApplyWorker.run emits finished
WorkerFinished ==
    /\ pc = "worker"
    /\ idx > Len(planned_ops)
    /\ pc' = "idle"
    /\ EndLoop
    /\ UNCHANGED <<planvars, scanvars, repo, win_config, items, do_stash, stashed, last_run,
                   undovars, faults, budget>>

\* line 591: list(reversed(mapping))
Reversed(mapping) == [i \in 1..Len(mapping) |-> mapping[Len(mapping) + 1 - i]]

\* line 594: git_mv(repo, dst, src): the move that undoes a pair
UndoMove(pair) == [src |-> pair.dst, dst |-> pair.src]

\* ui_main.py lines 562-592: Undo last run, up to the loop
UndoLastRun ==
    /\ pc = "idle"
    /\ last_run # <<>>
    /\ runs < MaxRuns
    /\ \E confirm \in {"Yes", "No"} :
         IF confirm # "Yes"
         THEN UNCHANGED <<pc, undovars, idx, movelog, ghost, runs>>
         ELSE /\ pc' = "undo"
              /\ reversed_ops' = Reversed(last_run)
              /\ failures' = <<>>
              /\ idx' = 1
              /\ movelog' = <<>>
              /\ runs' = runs + 1
              /\ ghost' = [ghost EXCEPT !.loop = "undo", !.undo_from = repo]
    /\ UNCHANGED <<planvars, scanvars, repo, win_config, items, do_stash, stashed, is_dry,
                   planned_ops, applied_ops, run_warnings, last_run, faults, clicks>>

\* ui_main.py lines 593-596: one iteration of the undo loop
UndoStep ==
    /\ pc = "undo"
    /\ idx <= Len(reversed_ops)
    /\ \E fault \in BOOLEAN :
         /\ fault => faults < MaxFaults
         /\ faults' = IF fault THEN faults + 1 ELSE faults
         /\ LET mv == UndoMove(reversed_ops[idx])
                r  == git_mv(repo, mv.src, mv.dst, FALSE, fault)
            IN  /\ repo' = r.tree
                /\ movelog' = Append(movelog, Call(mv.src, mv.dst, r.ok, fault))
                /\ failures' = IF ~r.ok THEN Append(failures, mv) ELSE failures
    /\ idx' = idx + 1
    /\ UNCHANGED <<planvars, scanvars, win_config, items, pc, do_stash, stashed, is_dry,
                   planned_ops, applied_ops, run_warnings, last_run, reversed_ops,
                   budget, ghost>>

\* ui_main.py lines 597-600: the message that ends the undo
UndoDone ==
    /\ pc = "undo"
    /\ idx > Len(reversed_ops)
    /\ pc' = "idle"
    /\ reversed_ops' = <<>>
    /\ failures' = <<>>
    /\ EndLoop
    /\ UNCHANGED <<planvars, scanvars, repo, win_config, items, do_stash, stashed, last_run,
                   faults, budget>>

Next ==
    \/ ScanFinished
    \/ OnRowChecked
    \/ ToggleAll
    \/ OnFixChanged
    \/ ApplyFixes
    \/ PreviewStep
    \/ ConfirmApply
    \/ ApplyStep
    \/ ApplySaved
    \/ ApplyDone
    \/ ApplyWorkerRun
    \/ WorkerStep
    \/ WorkerFinished
    \/ UndoLastRun
    \/ UndoStep
    \/ UndoDone

Spec == Init /\ [][Next]_vars

-----------------------------------------------------------------------------
(* SpecTable: the scan and the edits of the table (check boxes, master     *)
(* check box, fix combo box) over repositories whose items have more than  *)
(* one fix option.                                                         *)

\* a name longer than the small stored limit
LongName == <<"a", "b", "c", "d", "e", "f", "g", "h", "i">>

\* tracked files with the options auto; auto and spaces; auto and nfc; none
\* and shorten; auto and shorten; and a file without an issue
TableFilePool ==
    { <<"a", "?">>, <<"a", " ", " ", "b", "?">>, <<"e", CombiningAcute, "?">>,
      LongName, LongName \o <<"?">>, <<"a">> }

\* ui_main.py line 104: the limit is the stored setting "max_path" as it is
\* (the range 120..4096 of the settings dialog, line 63, is not applied to
\* it), DEFAULT_WIN_MAX_PATH when nothing is stored
StoredMaxPaths == {8, DEFAULT_WIN_MAX_PATH}

\* the configuration of the window: the stored limit with the flags off,
\* as __init__ leaves it, or a limit and flags of the settings dialog
\* (lines 86-91 and 249-252)
TableConfigPool ==
    { ScanConfig(m, FALSE, FALSE) : m \in StoredMaxPaths }
    \cup { ScanConfig(DEFAULT_WIN_MAX_PATH, n, c) : n \in BOOLEAN, c \in BOOLEAN }

TableInit == InitOver(TableFilePool, TableConfigPool)

TableNext == ScanFinished \/ OnRowChecked \/ ToggleAll \/ OnFixChanged

SpecTable == TableInit /\ [][TableNext]_vars

-----------------------------------------------------------------------------
(* SpecScan: the scan worker on its thread and the main window's handlers  *)
(* on the GUI thread, one statement of ScanWorker.run per step.            *)

\* worker.py lines 20-26 and ui_main.py lines 293-306: a worker as
\* constructed, its thread started.  cancel_pc is history: the position of
\* run when cancel() was called
NewWorker ==
    [pc |-> "start", cancel |-> FALSE, emitted |-> <<>>, thread |-> "running",
     cancel_pc |-> "none"]

\* the thread self._scan_thread refers to is still running
ThreadRunning == scan_worker # 0 /\ workers[scan_worker].thread = "running"

\* ui_main.py lines 273-306: Scan or Rescan is clicked.  Rebinding
\* self._scan_thread destroys the previous QThread; while that thread is
\* still running its destruction is undefined: the process aborts, or goes on
StartScan ==
    /\ pc = "idle"
    /\ Len(workers) < MaxScans
    /\ \E aborts \in BOOLEAN :
         /\ aborts => ThreadRunning
         /\ IF aborts
            THEN /\ pc' = "crashed"
                 /\ UNCHANGED scanvars
            ELSE /\ workers' = Append(workers, NewWorker)
                 /\ scan_worker' = Len(workers) + 1
                 /\ btn_cancel' = TRUE
                 /\ btn_scan' = FALSE
                 /\ UNCHANGED <<pc, inbox>>
    /\ UNCHANGED <<planvars, repo, last_run, win_config, items, do_stash, stashed,
                   loopvars, undovars, faults, budget, ghost>>

\* worker.py lines 28-29: cancel()
Cancel(w) == [w EXCEPT !.cancel = TRUE,
                       !.cancel_pc = IF w.cancel_pc = "none" THEN w.pc ELSE w.cancel_pc]

\* ui_main.py lines 268-271: Cancel is clicked
CancelScan ==
    /\ pc = "idle"
    /\ btn_cancel
    /\ workers' = IF scan_worker # 0
                  THEN [workers EXCEPT ![scan_worker] = Cancel(@)]
                  ELSE workers
    /\ btn_cancel' = FALSE
    /\ UNCHANGED <<planvars, repo, last_run, win_config, items, pc, do_stash, stashed,
                   loopvars, undovars, faults, budget, ghost, scan_worker, inbox,
                   btn_scan>>

\* a mutant: run never sees the flag
CancelIgnored(w) == FALSE

\* worker.py lines 34 and 43: if self._cancel
CancelRequested(w) == w.cancel

\* run of worker w is at position at and goes to position to without a
\* terminal signal
Advance(w, at, to) ==
    /\ pc # "crashed"
    /\ w \in 1..Len(workers)
    /\ workers[w].pc = at
    /\ workers' = [workers EXCEPT ![w].pc = to]
    /\ UNCHANGED inbox

\* run of worker w is at position at, emits the terminal signal and returns;
\* the signal is queued for the GUI thread
Emit(w, at, signal) ==
    /\ pc # "crashed"
    /\ w \in 1..Len(workers)
    /\ workers[w].pc = at
    /\ workers' = [workers EXCEPT ![w].pc = "done",
                                  ![w].emitted = Append(@, signal)]
    /\ inbox' = Append(inbox, [signal |-> signal, worker |-> w])

workerframe == <<planvars, repo, last_run, win_config, items, pc, do_stash, stashed,
                 loopvars, undovars, faults, budget, ghost, scan_worker, btn_cancel,
                 btn_scan>>

\* worker.py line 33: progress.emit(0, ...)
RunBegin(w) ==
    /\ Advance(w, "start", "check1")
    /\ UNCHANGED workerframe

\* worker.py lines 34-36: the first check of the flag
RunCheck1(w) ==
    /\ w \in 1..Len(workers)
    /\ IF CancelRequested(workers[w])
       THEN Emit(w, "check1", "cancelled")
       ELSE Advance(w, "check1", "build")
    /\ UNCHANGED workerframe

\* worker.py lines 37-42 and 48-49: build_scan returns, or raises and the
\* handler emits failed
RunBuild(w) ==
    /\ \E raised \in BOOLEAN :
         IF raised THEN Emit(w, "build", "failed")
         ELSE Advance(w, "build", "check2")
    /\ UNCHANGED workerframe

\* worker.py lines 43-45: the second check of the flag
RunCheck2(w) ==
    /\ w \in 1..Len(workers)
    /\ IF CancelRequested(workers[w])
       THEN Emit(w, "check2", "cancelled")
       ELSE Advance(w, "check2", "progress")
    /\ UNCHANGED workerframe

\* worker.py line 46: progress.emit(100, ...)
RunProgress(w) ==
    /\ Advance(w, "progress", "finish")
    /\ UNCHANGED workerframe

\* worker.py line 47: finished.emit(items, meta)
RunFinish(w) ==
    /\ Emit(w, "finish", "finished")
    /\ UNCHANGED workerframe

\* the common part of the three handlers (ui_main.py lines 316-320, 326-330,
\* 335-339): the buttons, and quit() and wait() on self._scan_thread; wait()
\* returns once run of that thread's worker has returned
ScanOver(signal) ==
    /\ pc = "idle"
    /\ inbox # <<>>
    /\ Head(inbox).signal = signal
    /\ inbox' = Tail(inbox)
    /\ workers[scan_worker].pc = "done"
    /\ workers' = [workers EXCEPT ![scan_worker].thread = "finished"]
    /\ btn_cancel' = FALSE
    /\ btn_scan' = TRUE
    /\ UNCHANGED <<planvars, repo, last_run, win_config, pc, do_stash, stashed,
                   loopvars, undovars, faults, budget, ghost, scan_worker>>

\* ui_main.py lines 312-322
OnScanFinished ==
    /\ ScanOver("finished")
    /\ items' = build_scan(SortedStrings(repo.files), repo, win_config)

\* ui_main.py lines 324-331
OnScanCancelled ==
    /\ ScanOver("cancelled")
    /\ UNCHANGED items

\* ui_main.py lines 333-340
OnScanFailed ==
    /\ ScanOver("failed")
    /\ UNCHANGED items

ScanNext ==
    \/ StartScan
    \/ CancelScan
    \/ \E w \in 1..MaxScans : RunBegin(w)
    \/ \E w \in 1..MaxScans : RunCheck1(w)
    \/ \E w \in 1..MaxScans : RunBuild(w)
    \/ \E w \in 1..MaxScans : RunCheck2(w)
    \/ \E w \in 1..MaxScans : RunProgress(w)
    \/ \E w \in 1..MaxScans : RunFinish(w)
    \/ OnScanFinished
    \/ OnScanCancelled
    \/ OnScanFailed

\* the main window over a repository with one tracked file
ScanInit ==
    /\ Init
    /\ \E f \in FilePool : repo.files = {f}

SpecScan == ScanInit /\ [][ScanNext]_vars

-----------------------------------------------------------------------------
(* Properties of plan_renames and disambiguate_targets (SpecPlan).         *)

\* p is .git or lies under .git/
GitRooted(p) == p = DotGit \/ StartsWith(p, DotGitSlash)

\* directory a is a proper ancestor of path p
IsAncestor(a, p) == StartsWith(p, a \o <<"/">>)

\* the number of positions of sequence s that satisfy Test
CountIf(s, Test(_)) == Cardinality({i \in 1..Len(s) : Test(s[i])})

\* C2: in the operation list returned by plan_renames the sources are in
\* non-increasing depth order, so that an operation on an entry comes before
\* the operation on any of its ancestor directories.
C2_DeepestFirst ==
    phase = "planned" =>
        /\ \A i, j \in 1..Len(plan.ops) :
               i < j => CountSlash(plan.ops[i].src) >= CountSlash(plan.ops[j].src)
        /\ \A i, j \in 1..Len(plan.ops) :
               IsAncestor(plan.ops[j].src, plan.ops[i].src) => i < j

\* the item list names a directory before an entry inside it, and both are planned
C2_Witness ==
    /\ phase = "planned"
    /\ \E a, b \in 1..Len(items) :
           /\ a < b
           /\ IsAncestor(items[a].rel_path, items[b].rel_path)
           /\ \E i, j \in 1..Len(plan.ops) :
                  /\ plan.ops[i].src = items[b].rel_path
                  /\ plan.ops[j].src = items[a].rel_path

\* C3: plan_renames returns no operation whose source or final destination
\* is .git or lies under .git/; every planned item that is not turned into
\* an operation is one with such a source or destination, and a
\* "Refusing to rename .git internals" warning is recorded for it.
C3_NoGitOperation ==
    phase = "planned" =>
        /\ \A i \in 1..Len(plan.ops) :
               ~GitRooted(plan.ops[i].src) /\ ~GitRooted(plan.ops[i].dst)
        /\ \A i \in 1..Len(plan.warnings) :
               plan.warnings[i].kind = "refuse_git" =>
                   GitRooted(plan.warnings[i].src) \/ GitRooted(plan.warnings[i].dst)
        /\ Len(plan.ops) + CountIf(plan.warnings, LAMBDA w : w.kind = "refuse_git")
               = CountIf(items, IsPlanned)
        /\ \A i \in 1..Len(items) :
               IsPlanned(items[i]) /\ GitRooted(items[i].rel_path) =>
                   \E j \in 1..Len(plan.warnings) :
                       /\ plan.warnings[j].kind = "refuse_git"
                       /\ plan.warnings[j].src = items[i].rel_path

\* an item outside .git whose destination is under .git was refused, next
\* to an item that was planned
C3_Witness ==
    /\ phase = "planned"
    /\ plan.ops # <<>>
    /\ \E j \in 1..Len(plan.warnings) :
           /\ plan.warnings[j].kind = "refuse_git"
           /\ ~GitRooted(plan.warnings[j].src)
           /\ GitRooted(plan.warnings[j].dst)

\* C4: the destinations of the operations returned by plan_renames are
\* pairwise distinct under case-folding.
C4_CollisionFree ==
    phase = "planned" =>
        \A i, j \in 1..Len(plan.ops) :
            i # j => casefold(plan.ops[i].dst) # casefold(plan.ops[j].dst)

\* the number of positions up to i of ts whose case-fold key is that of ts[i]
RankInGroup(ts, i) ==
    Cardinality({j \in 1..i : casefold(ts[j]) = casefold(ts[i])})

\* C10: resolving each list position through the map returned by
\* disambiguate_targets gives the first element of a case-fold group
\* unchanged and the k-th element (k >= 2) with "_<k-1>" before its
\* extension, or appended when it has none; two positions that share a
\* case-fold key resolve to different paths.
C10_PerPositionSuffix ==
    phase = "disambiguated" =>
        /\ \A i \in 1..Len(targets) :
               disamb[targets[i]] =
                   IF RankInGroup(targets, i) = 1 THEN targets[i]
                   ELSE SuffixedTarget(targets[i], RankInGroup(targets, i) - 1)
        /\ \A i, j \in 1..Len(targets) :
               i # j /\ casefold(targets[i]) = casefold(targets[j]) =>
                   disamb[targets[i]] # disamb[targets[j]]

\* C26: disambiguate_targets changes only the final segment of a path: the
\* path returned for a target has the same parent directory (all segments
\* but the last) as the target, also when the last segment contains no "."
\* while an earlier segment does.
C26_SameParentDirectory ==
    phase = "disambiguated" =>
        \A t \in DOMAIN disamb : Parent(disamb[t]) = Parent(t)

\* C11: in plan_renames the residual-collision guard never triggers after
\* disambiguation: no destination gets "_x" appended and no "Additional
\* collision guard applied" warning is recorded.
C11_GuardNeverTriggers ==
    phase = "planned" =>
        \A i \in 1..Len(plan.warnings) : plan.warnings[i].kind # "guard"

\* the operations of the plan whose source is p
OpsFrom(p) == {i \in 1..Len(plan.ops) : plan.ops[i].src = p}

\* plan_renames refused the item of path p as a .git internal
Refused(p) ==
    \E j \in 1..Len(plan.warnings) :
        plan.warnings[j].kind = "refuse_git" /\ plan.warnings[j].src = p

\* C18 as stated: plan_renames emits operations only for items that are
\* selected and whose proposed_fix differs from rel_path; an unselected item
\* or one whose proposed_fix equals its rel_path is never a source, and every
\* selected item with a different proposed_fix that is not .git-rooted is
\* the source of exactly one operation.
C18_SelectedAndChanged ==
    phase = "planned" =>
        /\ \A i \in 1..Len(items) :
               ~items[i].selected \/ items[i].proposed_fix = items[i].rel_path =>
                   OpsFrom(items[i].rel_path) = {}
        /\ \A i \in 1..Len(items) :
               /\ items[i].selected
               /\ items[i].proposed_fix # items[i].rel_path
               /\ ~Refused(items[i].rel_path)
               => Cardinality(OpsFrom(items[i].rel_path)) = 1

\* C18 amended: the same, for the items whose proposed_fix is set: an item
\* with an empty proposed_fix is never a source either, and every selected
\* item with a non-empty, different proposed_fix that is not refused as
\* .git-rooted is the source of exactly one operation.
C18_SelectedChangedAndSet ==
    phase = "planned" =>
        /\ \A i \in 1..Len(items) :
               \/ ~items[i].selected
               \/ items[i].proposed_fix = items[i].rel_path
               \/ items[i].proposed_fix = <<>>
               => OpsFrom(items[i].rel_path) = {}
        /\ \A i \in 1..Len(items) :
               /\ items[i].selected
               /\ items[i].proposed_fix # <<>>
               /\ items[i].proposed_fix # items[i].rel_path
               /\ ~Refused(items[i].rel_path)
               => Cardinality(OpsFrom(items[i].rel_path)) = 1
        /\ \A j \in 1..Len(plan.ops) :
               \E i \in 1..Len(items) : items[i].rel_path = plan.ops[j].src

\* an unselected item and an item with an empty proposal were passed over
\* next to an item that became an operation
C18_Witness ==
    /\ phase = "planned"
    /\ plan.ops # <<>>
    /\ \E i \in 1..Len(items) :
           ~items[i].selected /\ items[i].proposed_fix # items[i].rel_path
    /\ \E i \in 1..Len(items) :
           items[i].selected /\ items[i].proposed_fix = <<>>

-----------------------------------------------------------------------------
(* Properties of pathrules and of the collision detector (SpecRules)       *)

\* x is an element of the sequence s
InSeq(x, s) == \E i \in 1..Len(s) : s[i] = x

\* the characters of the substitution table that cannot be part of a
\* segment's name on Windows (the separator "/" is not one of them)
TableChars == {"<", ">", ":", "\"", "\\", "|", "?", "*"}

\* C12: shorten_path(rel_path, max_len) returns a string of length at most
\* max_len for every input and every max_len, including maxima below 7.
C12_ShortenWithinLimit ==
    result.fn = "shorten_path" => Len(result.value) <= arg.config.max_path

\* C14: every group returned by detect_collisions_case_insensitive contains
\* at least two different path strings, for any input list, also one in
\* which a path occurs twice.
C14_GroupsOfDifferentPaths ==
    result.fn = "detect_collisions_case_insensitive" =>
        \A k \in DOMAIN result.value :
            \E i, j \in 1..Len(result.value[k]) : result.value[k][i] # result.value[k][j]

\* C15 as stated: for any relative path that contains one of the characters
\* < > : " / \ | ? * or a control character (0-31), validate_rel_path
\* returns the issue code FORBIDDEN_CHARS.
C15_ForbiddenReported ==
    /\ result.fn = "validate_rel_path"
    /\ \E i \in 1..Len(arg.rel_path) :
           arg.rel_path[i] \in TableChars \cup {"/"} \/ CodePoint(arg.rel_path[i]) <= 31
    => InSeq("FORBIDDEN_CHARS", result.value)

\* C15 amended: for any relative path that contains one of the characters
\* < > : " \ | ? * or a control character (0-31), validate_rel_path returns
\* the issue code FORBIDDEN_CHARS; "/" separates the segments and is never
\* reported.
C15_ForbiddenInSegmentReported ==
    /\ result.fn = "validate_rel_path"
    /\ \E i \in 1..Len(arg.rel_path) :
           arg.rel_path[i] \in TableChars \/ CodePoint(arg.rel_path[i]) <= 31
    => InSeq("FORBIDDEN_CHARS", result.value)

\* a path of two segments whose only offending character is a control
\* character was validated, and the code was returned
C15_Witness ==
    /\ result.fn = "validate_rel_path"
    /\ InSeq("/", arg.rel_path)
    /\ InSeq(Tab, arg.rel_path)
    /\ \A i \in 1..Len(arg.rel_path) : arg.rel_path[i] \notin TableChars
    /\ InSeq("FORBIDDEN_CHARS", result.value)

\* the segment ends with a space or a period
EndsWithSpaceOrPeriod(seg) == seg # <<>> /\ seg[Len(seg)] \in {" ", "."}

\* C16 as stated: for any relative path in which some slash-delimited
\* segment ends with a space or a period, validate_rel_path returns the
\* issue code TRAILING_SPACE_PERIOD.
C16_TrailingReported ==
    /\ result.fn = "validate_rel_path"
    /\ \E i \in 1..Len(SplitSlash(arg.rel_path)) :
           EndsWithSpaceOrPeriod(SplitSlash(arg.rel_path)[i])
    => InSeq("TRAILING_SPACE_PERIOD", result.value)

\* C16 amended: for any relative path in which some slash-delimited segment
\* other than "." and ".." ends with a space or a period, validate_rel_path
\* returns the issue code TRAILING_SPACE_PERIOD; the segments "." and ".."
\* are skipped.
C16_TrailingOfNameReported ==
    /\ result.fn = "validate_rel_path"
    /\ \E i \in 1..Len(SplitSlash(arg.rel_path)) :
           /\ EndsWithSpaceOrPeriod(SplitSlash(arg.rel_path)[i])
           /\ SplitSlash(arg.rel_path)[i] \notin {<<".">>, <<".", ".">>}
    => InSeq("TRAILING_SPACE_PERIOD", result.value)

\* a path with a segment "." and a segment that ends with a space was
\* validated, and the code was returned
C16_Witness ==
    /\ result.fn = "validate_rel_path"
    /\ InSeq(<<".">>, SplitSlash(arg.rel_path))
    /\ \E i \in 1..Len(SplitSlash(arg.rel_path)) :
           LET seg == SplitSlash(arg.rel_path)[i]
           IN  seg # <<>> /\ seg[Len(seg)] = " "
    /\ InSeq("TRAILING_SPACE_PERIOD", result.value)

\* C17: when generate_fix_options emits an "auto" option, no segment of its
\* preview path contains a character of the substitution table
\* (< > : " \ | ? *) or a control character.
C17_AutoHasNoForbidden ==
    result.fn = "generate_fix_options" =>
        \A o \in 1..Len(result.value) :
            result.value[o].key = "auto" =>
                \A i \in 1..Len(result.value[o].preview_path) :
                    /\ result.value[o].preview_path[i] \notin TableChars
                    /\ CodePoint(result.value[o].preview_path[i]) > 31

\* an "auto" option with a non-empty preview was emitted for a path with a
\* substituted character, a removed character and a control character
C17_Witness ==
    /\ result.fn = "generate_fix_options"
    /\ InSeq(":", arg.rel_path) /\ InSeq("?", arg.rel_path) /\ InSeq(Tab, arg.rel_path)
    /\ \E o \in 1..Len(result.value) :
           result.value[o].key = "auto" /\ result.value[o].preview_path # <<>>

\* C20: the segment returned by fix_segment triggers none of
\* FORBIDDEN_CHARS, TRAILING_SPACE_PERIOD and RESERVED_DEVICE when it is
\* validated again; after the reserved-device step the result is no longer
\* a reserved name.
C20_FixedSegmentIsClean ==
    result.fn = "fix_segment" =>
        /\ validate_segments(<<result.value>>) = <<>>
        /\ ~is_reserved_device(result.value)

-----------------------------------------------------------------------------
(* Properties of the table (SpecTable)                                     *)

\* C13: for every ScanItem, after build_scan and after any sequence of
\* fix-strategy changes through _on_fix_changed, proposed_fix equals the
\* preview_path of one of the item's own fix options, "shorten" included.
C13_ProposedIsAnOption ==
    \A r \in 1..Len(items) :
        \E o \in 1..Len(items[r].fix_options) :
            items[r].fix_options[o].preview_path = items[r].proposed_fix

\* C21: for every path longer than max_path, the preview path of the
\* "shorten" option that build_scan appends, validated with the same
\* configuration, is not flagged PATH_TOO_LONG.
C21_ShortenClearsTooLong ==
    \A r \in 1..Len(items) :
        \A o \in 1..Len(items[r].fix_options) :
            items[r].fix_options[o].key = "shorten" =>
                ~InSeq("PATH_TOO_LONG",
                       validate_rel_path(items[r].fix_options[o].preview_path, win_config))

\* C22: for every ScanItem, after build_scan and after any sequence of
\* fix-strategy changes, the fix option whose key equals chosen_fix_key has
\* a preview_path equal to proposed_fix, also when the "shorten" path was
\* made the default proposal because no other option changed the path.
C22_ChosenKeyMatchesProposal ==
    \A r \in 1..Len(items) :
        /\ \E o \in 1..Len(items[r].fix_options) :
               items[r].fix_options[o].key = items[r].chosen_fix_key
        /\ \A o \in 1..Len(items[r].fix_options) :
               items[r].fix_options[o].key = items[r].chosen_fix_key =>
                   items[r].fix_options[o].preview_path = items[r].proposed_fix

\* the "shorten" option of an item with an "auto" option was chosen in the
\* combo box, and the proposal is its preview
C13_Witness ==
    /\ clicks > 0
    /\ \E r \in 1..Len(items) :
           /\ Len(items[r].fix_options) = 2
           /\ items[r].fix_options[1].key = "auto"
           /\ items[r].fix_options[2].key = "shorten"
           /\ items[r].chosen_fix_key = "shorten"
           /\ items[r].proposed_fix = items[r].fix_options[2].preview_path
           /\ items[r].proposed_fix # items[r].fix_options[1].preview_path

-----------------------------------------------------------------------------
(* Properties of the replay loops (Spec)                                   *)

\* a move is valid: its source exists, its destination does not, the
\* directory of the destination exists, and a directory is not moved into
\* itself
MoveValid(tree, src, dst) ==
    /\ src \in Paths(tree)
    /\ dst \notin Paths(tree)
    /\ dst # <<>>
    /\ Parent(dst) = <<>> \/ Parent(dst) \in tree.dirs
    /\ ~StartsWith(dst, src \o <<"/">>)

\* the operations from position i on are valid moves when executed one after
\* another on the tree
RECURSIVE AllMovesValid(_, _, _)
AllMovesValid(tree, ops, i) ==
    IF i > Len(ops) THEN TRUE
    ELSE /\ MoveValid(tree, ops[i].src, ops[i].dst)
         /\ AllMovesValid(MoveTree(tree, ops[i].src, ops[i].dst), ops, i + 1)

\* the items are those of a scan of the tree as it is: nothing was edited
\* and nothing was replayed since
FreshScan == pc = "idle" /\ items # <<>> /\ clicks = 0 /\ runs = 0

\* C1: the operations plan_renames returns for the items of a scan, executed
\* in order on the scanned tree, are all valid moves (source exists,
\* destination does not, the destination's directory exists).
C1_EveryMoveValid ==
    FreshScan => AllMovesValid(repo, plan_renames(items).ops, 1)

\* the operations ops rename path q away: q or a directory above it is a source
RenamedAway(ops, q) ==
    \E j \in 1..Len(ops) : ops[j].src = q \/ StartsWith(q, ops[j].src \o <<"/">>)

\* C19: for the items build_scan produces over the paths of a repository,
\* no operation of plan_renames has a destination that equals, exactly or
\* under case-folding, a path of the repository that the plan does not
\* itself rename away.
C19_NoDestinationOnExistingPath ==
    FreshScan =>
        LET ops == plan_renames(items).ops IN
        \A i \in 1..Len(ops) : \A q \in Paths(repo) :
            casefold(q) = casefold(ops[i].dst) => RenamedAway(ops, q)

\* the warnings of failed moves, and the failed calls, in order
GitWarnings(ws) == SelectSeq(ws, LAMBDA w : w.kind = "git_mv_failed")
FailedCalls(log) == SelectSeq(log, LAMBDA c : ~c.ok)

\* the calls made so far are the first planned operations, in order
AttemptedInOrder ==
    /\ Len(movelog) <= Len(planned_ops)
    /\ \A i \in 1..Len(movelog) :
           movelog[i].src = planned_ops[i].src /\ movelog[i].dst = planned_ops[i].dst

RealReplay == ghost.loop \in {"apply", "worker"} /\ ~is_dry
PreviewReplay == ghost.loop \in {"preview", "worker"} /\ is_dry

\* C5: in a real apply (_run_apply and ApplyWorker.run) the first failed move
\* ends the loop: the calls are a prefix of the plan, only the last one can
\* have failed, the applied list is the planned operations before it, the
\* loop is over after it, and one warning naming it was appended.
C5_StopAtFirstFailure ==
    RealReplay =>
        LET n      == Len(movelog)
            failed == n > 0 /\ ~movelog[n].ok
            k      == IF failed THEN n - 1 ELSE n
            w      == Warning("git_mv_failed", movelog[n].src, movelog[n].dst)
        IN  /\ AttemptedInOrder
            /\ \A i \in 1..k : movelog[i].ok
            /\ applied_ops = SubSeq(planned_ops, 1, k)
            /\ failed => idx > Len(planned_ops)
            /\ ~failed => idx = n + 1
            /\ GitWarnings(run_warnings) = IF failed THEN <<w>> ELSE <<>>
            /\ failed => run_warnings[Len(run_warnings)] = w

\* a real apply failed at its second move or later, with planned operations
\* left
C5_Witness ==
    /\ RealReplay
    /\ Len(movelog) >= 2
    /\ ~movelog[Len(movelog)].ok
    /\ Len(movelog) < Len(planned_ops)
    /\ applied_ops # <<>>

\* C6: in a preview a failed move does not end the loop: every planned
\* operation is attempted in order, each failure appends one warning, and the
\* applied list stays empty.
C6_PreviewContinues ==
    PreviewReplay =>
        LET failed == FailedCalls(movelog)
        IN  /\ AttemptedInOrder
            /\ idx = Len(movelog) + 1
            /\ applied_ops = <<>>
            /\ GitWarnings(run_warnings) =
                   [i \in 1..Len(failed) |->
                       Warning("git_mv_failed", failed[i].src, failed[i].dst)]

\* a preview is over whose first move failed and whose later moves were
\* attempted, one of them with success
C6_Witness ==
    /\ PreviewReplay
    /\ idx > Len(planned_ops)
    /\ Len(movelog) >= 2
    /\ ~movelog[1].ok
    /\ \E i \in 2..Len(movelog) : movelog[i].ok

\* the undo loop is over; it started from the tree the saved run left and
\* git failed for no reason outside the tree
UndoOfSavedRun ==
    /\ pc = "undo"
    /\ idx > Len(reversed_ops)
    /\ ghost.undo_from = ghost.saved_after
    /\ \A i \in 1..Len(movelog) : ~movelog[i].fault

\* C7: an apply followed by the undo of its saved mapping restores the
\* tracked paths the apply started from.
C7_RoundTripRestores ==
    UndoOfSavedRun => repo.files = ghost.saved_before.files

\* C8: the undo replay stops at its first failed move: no move is attempted
\* after a failed one.
C8_UndoStopsAtFirstFailure ==
    ghost.loop = "undo" => \A i \in 1..(Len(movelog) - 1) : movelog[i].ok

\* C25: in _apply_fixes no real move is executed unless, in this order, a
\* dry-run pass has produced a non-empty plan, the user has answered Yes to
\* the confirmation and, when auto-stash was chosen, the stash succeeded;
\* when the user aborts or declines or the stash fails, no real move is
\* executed and no last-run mapping is saved; the mapping is saved only
\* when at least one operation was applied, and stash_pop is attempted
\* after the apply exactly when a stash was made.
C25_ApplyOrder ==
    [][/\ pc' = "apply" /\ pc # "apply" =>
              /\ pc = "preview" /\ is_dry
              /\ idx > Len(planned_ops) /\ planned_ops # <<>>
              /\ \A i \in 1..Len(movelog) : movelog[i].src = planned_ops[i].src
              /\ Len(movelog) = Len(planned_ops)
              /\ ghost'.confirm = "Yes"
              /\ do_stash => stashed'
       /\ pc' \in {"apply", "report"} => ghost'.confirm = "Yes" /\ (do_stash' => stashed')
       /\ pc \in {"idle", "preview"} /\ pc' \in {"idle", "preview"} =>
              repo' = repo /\ last_run' = last_run
       /\ pc = "apply" /\ pc' = "apply" => last_run' = last_run
       /\ pc = "apply" /\ pc' = "report" =>
              /\ applied_ops = <<>> => last_run' = last_run
              /\ applied_ops # <<>> => last_run' = applied_ops
              /\ ghost'.pop <=> stashed
              /\ repo' = repo
       /\ pc = "report" => repo' = repo /\ last_run' = last_run]_vars

\* an apply with a stash has renamed an entry, saved the mapping and called
\* stash_pop
C25_Witness ==
    /\ pc = "report"
    /\ do_stash /\ stashed /\ ghost.pop
    /\ applied_ops # <<>>
    /\ last_run = applied_ops

\* the step in which _apply_fixes returns after its real pass
ApplyReturns == pc = "report" /\ pc' = "idle"

\* C24: after a real apply in _apply_fixes an item has the status "Renamed"
\* if and only if the operation whose source is the item's rel_path is in
\* the applied list, also when its destination was adjusted by
\* disambiguation or by the "_x" guard; every other item keeps its status.
C24_RenamedIffApplied ==
    [][ApplyReturns =>
          \A r \in 1..Len(items) :
              IF \E i \in 1..Len(applied_ops) : applied_ops[i].src = items[r].rel_path
              THEN items'[r].status = "Renamed"
              ELSE items'[r].status = items[r].status]_vars


-----------------------------------------------------------------------------
(* Properties of the scan worker (SpecScan)                                *)

\* positions of run before its last check of the flag, and after it
BeforeLastCheck == {"start", "check1", "build", "check2"}
AfterLastCheck == {"progress", "finish"}

\* C9 (as stated): cancel() at any moment before run has emitted a terminal
\* signal means run emits no finished, and no run emits two terminal signals.
C9_CancelYieldsNoResult ==
    \A w \in 1..Len(workers) :
        /\ workers[w].cancel_pc \notin {"none", "done"} =>
               \A i \in 1..Len(workers[w].emitted) : workers[w].emitted[i] # "finished"
        /\ Len(workers[w].emitted) <= 1

\* C9 (amended): cancel() before run's last check of the flag means run
\* emits cancelled or failed and never finished; cancel() after that check
\* is not seen and run emits finished; run emits one terminal signal, when
\* it returns.
C9_CancelBeforeLastCheck ==
    \A w \in 1..Len(workers) :
        /\ Len(workers[w].emitted) = (IF workers[w].pc = "done" THEN 1 ELSE 0)
        /\ workers[w].cancel_pc \in BeforeLastCheck =>
               workers[w].emitted \in {<<>>, <<"cancelled">>, <<"failed">>}
        /\ workers[w].cancel_pc \in AfterLastCheck /\ workers[w].pc = "done" =>
               workers[w].emitted = <<"finished">>

\* C23: at most one scan worker is running at any time: _start_scan is never
\* entered while a scan thread started before has not delivered its
\* finished / cancelled / failed signal, so _scan_thread and _scan_worker
\* are never overwritten while their scan is still running.
C23_OneScanAtATime ==
    /\ pc # "crashed"
    /\ \A v, w \in 1..Len(workers) :
           workers[v].thread = "running" /\ workers[w].thread = "running" => v = w

\* a run that was cancelled while build_scan was running has returned
C9_Witness ==
    \E w \in 1..Len(workers) :
        /\ workers[w].cancel_pc = "build"
        /\ workers[w].pc = "done"
        /\ workers[w].emitted = <<"cancelled">>


=============================================================================
